---- MODULE Spec2Model ----
(***************************************************************************)
(* State-machine model of autoencoders/models/bigae.py: the class-embedding *)
(* mapper ClassUp, the dense encoder head, the ResnetEncoder, the decoder   *)
(* wrapper and the top-level BigAE with its from_pretrained factory.        *)
(*                                                                          *)
(* Tensors are modelled by their shapes (sequences of naturals); a call is  *)
(* modelled by the shape it returns, the exception it raises and the trace  *)
(* of operations it performs, in program order.                             *)
(***************************************************************************)
EXTENDS Integers, Sequences, FiniteSets, TLC

VARIABLES
    cudnn_benchmark,  \* the process-wide flag torch.backends.cudnn.benchmark
    model,            \* the BigAE the caller holds (NoObject when none)
    encoder,          \* the stand-alone ResnetEncoder the caller holds
    classup,          \* the stand-alone ClassUp the caller holds
    last              \* the last call: operation, arguments, trace, outcome

vars == <<cudnn_benchmark, model, encoder, classup, last>>

----------------------------------------------------------------------------
(* Bounds of the model. *)

MaxDim == 2       \* latent / feature widths 1..MaxDim
MaxDepth == 2     \* ClassUp depths 0..MaxDepth
MaxBatch == 2     \* batch sizes 1..MaxBatch
MinInSize == 31   \* smallest scalar Model/in_size tried
MaxInSize == 34   \* largest scalar Model/in_size tried besides the presets'
MaxUpdates == 2   \* cap on the count of running-statistics updates

(* Program constants. *)

NoneDim == 0              \* stands for Python's None in an integer argument
DefaultHiddenDim == 256   \* ClassUp's hidden_dim default
ClassEmbeddingDim == 1000 \* class_embedding_dim of the decoder wrapper
DefaultImageSize == 128   \* default of Model/in_size in the decoder wrapper
PresetSize == 128         \* in_size and z_dim of both presets

NoObject == [kind |-> "None"]
NoCall == [op |-> "none", error |-> "none", trace |-> <<>>]

----------------------------------------------------------------------------
(* Tensor shapes. *)

Last(s) == s[Len(s)]

\* Tensor.squeeze(-1): drops the last axis when it has size 1.
Squeeze(sh) ==
    IF Len(sh) > 0 /\ Last(sh) = 1 THEN SubSeq(sh, 1, Len(sh) - 1) ELSE sh

\* The number of times op occurs in a trace.
Count(tr, op) == Cardinality({i \in 1..Len(tr) : tr[i] = op})

\* Whether operation a occurs in the trace, and before every occurrence of b.
Before(tr, a, b) ==
    /\ \E i \in 1..Len(tr) : tr[i] = a
    /\ \A i, j \in 1..Len(tr) : tr[i] = a /\ tr[j] = b => i < j

Min(a, b) == IF a <= b THEN a ELSE b

----------------------------------------------------------------------------
(* ClassUp *)

Linear(i, o) == [kind |-> "Linear", in_f |-> i, out_f |-> o]
Activation(k) == [kind |-> k, in_f |-> 0, out_f |-> 0]

\* for d in range(depth): Linear(hidden, hidden), LeakyReLU
RECURSIVE HiddenBlocks(_, _)
HiddenBlocks(depth, hidden_dim) ==
    IF depth = 0 THEN <<>>
    ELSE <<Linear(hidden_dim, hidden_dim), Activation("LeakyReLU")>>
         \o HiddenBlocks(depth - 1, hidden_dim)

\* ClassUp.__init__: the layers of self.main, in order.
ClassUpLayers(dim, depth, hidden_dim, use_sigmoid, out_dim) ==
    <<Linear(dim, hidden_dim), Activation("LeakyReLU")>>
    \o HiddenBlocks(depth, hidden_dim)
    \o <<Linear(hidden_dim, IF out_dim = NoneDim THEN dim ELSE out_dim)>>
    \o (IF use_sigmoid THEN <<Activation("Sigmoid")>> ELSE <<>>)

ClassUpInit(dim, depth, hidden_dim, use_sigmoid, out_dim) ==
    [kind |-> "ClassUp", dim |-> dim, depth |-> depth,
     hidden_dim |-> hidden_dim, use_sigmoid |-> use_sigmoid,
     out_dim |-> out_dim,
     main |-> ClassUpLayers(dim, depth, hidden_dim, use_sigmoid, out_dim)]

\* nn.Sequential.forward over layers[i..] on a tensor whose last axis has
\* width w: a Linear needs w = in_features and makes it out_features; an
\* activation keeps it; the leading axes are untouched.  Returns the width
\* reached, the layers run, and whether a layer raised.
RECURSIVE RunLayers(_, _, _)
RunLayers(layers, w, i) ==
    IF i > Len(layers) THEN [ok |-> TRUE, width |-> w, done |-> <<>>]
    ELSE IF layers[i].kind = "Linear" /\ w # layers[i].in_f
         THEN [ok |-> FALSE, width |-> w, done |-> <<>>]
         ELSE LET r == RunLayers(layers,
                                 IF layers[i].kind = "Linear"
                                 THEN layers[i].out_f ELSE w,
                                 i + 1)
              IN [r EXCEPT !.done = <<layers[i].kind>> \o @]

\* self.main(x): a tensor without axes has no last axis for a Linear.
Sequential(layers, sh) ==
    IF Len(sh) = 0 THEN [ok |-> FALSE, width |-> 0, done |-> <<>>]
    ELSE RunLayers(layers, Last(sh), 1)

\* Variant: the softmax is applied to the input, ahead of self.main.
SoftmaxFirst(r, x1) ==
    IF ~r.ok
    THEN [error |-> "RuntimeError",
          trace |-> <<"squeeze", "squeeze", "softmax">> \o r.done,
          lin_in |-> x1, out |-> <<>>]
    ELSE [error |-> "none",
          trace |-> <<"squeeze", "squeeze", "softmax">> \o r.done,
          lin_in |-> x1,
          out |-> SubSeq(x1, 1, Len(x1) - 1) \o <<r.width>>]

\* torch.nn.functional.softmax(x, dim=1) on the result r of self.main(x1):
\* it needs an axis 1, and keeps the shape.
Softmax(r, x1) ==
    IF ~r.ok
    THEN [error |-> "RuntimeError",
          trace |-> <<"squeeze", "squeeze">> \o r.done,
          lin_in |-> x1, out |-> <<>>]
    ELSE IF Len(x1) < 2
    THEN [error |-> "IndexError",
          trace |-> <<"squeeze", "squeeze">> \o r.done,
          lin_in |-> x1, out |-> <<>>]
    ELSE [error |-> "none",
          trace |-> <<"squeeze", "squeeze">> \o r.done \o <<"softmax">>,
          lin_in |-> x1,
          out |-> SubSeq(x1, 1, Len(x1) - 1) \o <<r.width>>]

\* ClassUp.forward: main(x.squeeze(-1).squeeze(-1)), then softmax over dim=1.
ClassUpForward(cu, x) ==
    Softmax(Sequential(cu.main, Squeeze(Squeeze(x))), Squeeze(Squeeze(x)))

----------------------------------------------------------------------------
(* Configuration: the "Model" sub-dictionary, a function from keys to       *)
(* values.  An integer in_size s is written <<s>>, a pair (h, w) <<h, w>>.  *)

\* edflow.util.retrieve(config, "Model/<key>", default=...)
retrieve(config, key, default) ==
    IF key \in DOMAIN config THEN config[key] ELSE default

\* _norm_options: token -> normalization-layer constructor
norm_options ==
    ("in" :> "InstanceNorm2d") @@ ("bn" :> "BatchNorm2d") @@ ("an" :> "ActNorm")

\* __possible_resnets: type -> (constructor, channels of the last stage)
possible_resnets ==
    ("resnet18" :> 512) @@ ("resnet34" :> 512)
    @@ ("resnet50" :> 2048) @@ ("resnet101" :> 2048)

\* Variant: another default backbone.
DefaultTypeResnet18 == "resnet18"

\* default of Model/type in ResnetEncoder.__init__
DefaultType == "resnet50"

----------------------------------------------------------------------------
(* DenseEncoderLayer *)

\* DenseEncoderLayer.__init__ and build: one Conv2d(in_channels,
\* out_size, kernel_size = spatial_size, stride 1, padding 0).  With
\* in_channels None the width is 64 * min(2^(scale-1), 16), width_multiplier 1.
DenseEncoderLayer(scale, spatial_size, out_size, in_channels) ==
    [in_channels |-> IF in_channels # NoneDim THEN in_channels
                     ELSE IF scale >= 1 THEN 64 * Min(2^(scale - 1), 16)
                     ELSE 64 \div 2,
     out_channels |-> out_size,
     kernel_size |-> spatial_size]

\* whether the convolution of the head takes a map of shape sh
DenseAccepts(fc, sh) ==
    /\ Len(sh) = 4
    /\ sh[2] = fc.in_channels
    /\ sh[3] >= fc.kernel_size
    /\ sh[4] >= fc.kernel_size

\* DenseEncoderLayer.forward: the shape the convolution returns
DenseForward(fc, sh) ==
    <<sh[1], fc.out_channels,
      sh[3] - fc.kernel_size + 1, sh[4] - fc.kernel_size + 1>>

----------------------------------------------------------------------------
(* ResnetEncoder *)

\* A normalization layer rejects a map it cannot take statistics of:
\* BatchNorm2d, in training mode, one value per channel; InstanceNorm2d,
\* which normalizes by the input's own statistics in either mode, one
\* spatial element.  ActNorm takes any map.
NormRejects(norm, training, sh) ==
    \/ norm = "bn" /\ training /\ sh[1] * sh[3] * sh[4] = 1
    \/ norm = "in" /\ sh[3] * sh[4] = 1

\* the operations of features after _pre_process, in program order
BackboneOps ==
    <<"conv1", "bn1", "relu", "maxpool",
      "layer1", "layer2", "layer3", "layer4", "avgpool">>

\* conv1 (7x7, stride 2, padding 3), maxpool (3x3, stride 2, padding 1) and
\* the first block of layer2, layer3 and layer4 each halve the map
Halving == {"conv1", "maxpool", "layer2", "layer3", "layer4"}

\* the operations that run a normalization layer on their output
Normalizes(op) == op \in {"bn1", "layer1", "layer2", "layer3", "layer4"}

\* side of a map of side n after k halvings
HalfK(n, k) == (n + 2^k - 1) \div 2^k

\* how many of the first i operations halve the map
Halvings(i) == Cardinality({j \in 1..i : BackboneOps[j] \in Halving})

\* channels after the first i operations; channels is the width of layer4
WidthAfter(i, channels) ==
    IF i >= 8 THEN channels
    ELSE IF i = 7 THEN channels \div 2
    ELSE IF i = 6 THEN channels \div 4
    ELSE IF i = 5 THEN channels \div 8
    ELSE IF i >= 1 THEN 64
    ELSE 3

\* the shape of the (B, 3, H, W) batch sh after the first i operations;
\* avgpool is AdaptiveAvgPool2d((1, 1))
ShapeAfter(i, sh, channels) ==
    IF i = Len(BackboneOps) THEN <<sh[1], channels, 1, 1>>
    ELSE <<sh[1], WidthAfter(i, channels),
           HalfK(sh[3], Halvings(i)), HalfK(sh[4], Halvings(i))>>

\* self.model.conv1 ... self.model.avgpool on sh: the run stops at the first
\* operation whose normalization layer rejects its input.
RunBackbone(sh, norm, training, channels) ==
    LET bad == {i \in 1..Len(BackboneOps) :
                   /\ Normalizes(BackboneOps[i])
                   /\ NormRejects(norm, training,
                                  ShapeAfter(i, sh, channels))}
        stop == IF bad = {} THEN Len(BackboneOps)
                ELSE CHOOSE i \in bad : \A j \in bad : i <= j
    IN [error |-> IF bad = {} THEN "none" ELSE "ValueError",
        trace |-> SubSeq(BackboneOps, 1, stop),
        shape |-> ShapeAfter(stop, sh, channels)]

\* ResnetEncoder.features on an image batch of shape sh = (B, 3, H, W):
\* _pre_process, then the backbone up to and including avgpool.
Features(enc, sh) ==
    [RunBackbone(sh, enc.norm, enc.training, enc.channels)
        EXCEPT !.trace = <<"pre_process">> \o @]

\* The effect of a pass through the backbone on the encoder: in training
\* mode BatchNorm2d updates its running statistics.
FeaturesEffect(enc) ==
    [enc EXCEPT !.updates = IF enc.training /\ enc.norm = "bn"
                            THEN @ + 1 ELSE @]

\* self.model.fc(features) on the outcome f of features
ApplyHead(fc, f) ==
    IF f.error # "none" THEN [f EXCEPT !.shape = <<>>]
    ELSE IF DenseAccepts(fc, f.shape)
    THEN [f EXCEPT !.trace = @ \o <<"fc">>, !.shape = DenseForward(fc, @)]
    ELSE [f EXCEPT !.error = "RuntimeError", !.trace = @ \o <<"fc">>,
                   !.shape = <<>>]

\* ResnetEncoder.forward: _pre_process, features (which preprocesses its
\* argument again), then the dense head self.model.fc.
Forward(enc, sh) ==
    [ApplyHead(enc.fc, Features(enc, sh))
        EXCEPT !.trace = <<"pre_process">> \o @]

\* ResnetEncoder.post_features: the dense head on supplied features.
PostFeatures(enc, sh) ==
    ApplyHead(enc.fc, [error |-> "none", trace |-> <<>>, shape |-> sh])

ProbeTrace ==
    <<"norm_lookup", "type_lookup", "backbone", "image_transform",
      "randn", "probe">>

\* The end of ResnetEncoder.__init__, on the outcome size_pre_fc of the
\* probe self._get_spatial_size(ipt_size): the assertion that the probed
\* map is square, then the replacement of the last fc by the dense head.
ReplaceFc(built, z_dim, size_pre_fc) ==
    IF size_pre_fc.error # "none"
    THEN [error |-> size_pre_fc.error, trace |-> ProbeTrace,
          returned |-> NoObject]
    ELSE IF size_pre_fc.shape[3] # size_pre_fc.shape[4]
    THEN [error |-> "AssertionError", trace |-> ProbeTrace \o <<"assert">>,
          returned |-> NoObject]
    ELSE [error |-> "none", trace |-> ProbeTrace \o <<"assert", "fc">>,
          returned |->
              [FeaturesEffect(built) EXCEPT
                  !.fc = DenseEncoderLayer(0, size_pre_fc.shape[3],
                                           2 * z_dim, size_pre_fc.shape[2])]]

\* ResnetEncoder.__init__ on a configuration; fetch_ok is whether the
\* download of pretrained backbone weights succeeds when it is asked for.
\* The steps run in program order; the first that raises ends construction.
\* The backbone loads pretrained weights strictly, so they fit only the
\* BatchNorm2d layers they were saved with; torch.randn takes integers only.
ResnetEncoderInit(config, fetch_ok) ==
    LET type_ == retrieve(config, "type", DefaultType)
        Raise(e, tr) == [error |-> e, trace |-> tr, returned |-> NoObject]
        built == [kind |-> "ResnetEncoder", config |-> config,
                  type |-> type_, z_dim |-> config["z_dim"],
                  norm |-> config["norm"],
                  channels |-> possible_resnets[type_],
                  training |-> TRUE, updates |-> 0,
                  fc |-> DenseEncoderLayer(0, 1, 1000,
                                           possible_resnets[type_])]
    IN IF config["norm"] \notin DOMAIN norm_options
       THEN Raise("KeyError", <<"norm_lookup">>)
       ELSE IF type_ \notin DOMAIN possible_resnets
       THEN Raise("KeyError", <<"norm_lookup", "type_lookup">>)
       ELSE IF config["pretrained"] /\ ~fetch_ok
       THEN Raise("IOError", <<"norm_lookup", "type_lookup", "backbone">>)
       ELSE IF config["pretrained"] /\ config["norm"] # "bn"
       THEN Raise("RuntimeError", <<"norm_lookup", "type_lookup", "backbone">>)
       ELSE IF Len(config["in_size"]) # 1
       THEN Raise("TypeError", <<"norm_lookup", "type_lookup", "backbone",
                                 "image_transform", "randn">>)
       ELSE ReplaceFc(built, config["z_dim"],
                      Features(built, <<1, 3, config["in_size"][1],
                                        config["in_size"][1]>>))

----------------------------------------------------------------------------
(* BigGANDecoderWrapper *)

\* BigGANDecoderWrapper.__init__: the class-embedding mapper and the
\* generator of load_variable_latsize_generator.
BigGANDecoderWrapperInit(config) ==
    [map_to_class_embedding |->
        ClassUpInit(config["z_dim"], 2, 2 * ClassEmbeddingDim, FALSE,
                    ClassEmbeddingDim),
     decoder |-> [image_size |->
                      retrieve(config, "in_size", <<DefaultImageSize>>),
                  z_dim |-> config["z_dim"],
                  pretrained |-> retrieve(config, "pretrained", TRUE),
                  use_actnorm |->
                      retrieve(config, "use_actnorm_in_dec", FALSE),
                  n_class |-> ClassEmbeddingDim],
     training |-> TRUE, updates |-> 0]

\* The generator called on (latent, embedding): it takes a (B, z_dim)
\* latent with a (B, n_class) embedding.
GeneratorAccepts(g, x, emb) ==
    /\ Len(x) = 2
    /\ x[2] = g.z_dim
    /\ emb = <<x[1], g.n_class>>

\* The image batch the generator returns: of the configured size.
GeneratorImage(g, x) == <<x[1], 3>> \o g.image_size \o g.image_size

\* The effect of a pass through the generator on the decoder wrapper: in
\* training mode its normalization layers update their running statistics;
\* in evaluation mode nothing changes.
GeneratorEffect(dec) ==
    [dec EXCEPT !.updates = IF dec.training THEN @ + 1 ELSE @]

\* self.decoder(x, emb) on the outcome emb of self.map_to_class_embedding(x)
RunGenerator(dec, x, emb) ==
    IF emb.error # "none"
    THEN [error |-> emb.error, trace |-> <<"map_to_class_embedding">>,
          lin_in |-> emb.lin_in, gen_in |-> <<>>, reached |-> FALSE,
          out |-> <<>>]
    ELSE IF ~GeneratorAccepts(dec.decoder, x, emb.out)
    THEN [error |-> "RuntimeError",
          trace |-> <<"map_to_class_embedding", "decoder">>,
          lin_in |-> emb.lin_in, gen_in |-> x, reached |-> TRUE,
          out |-> <<>>]
    ELSE [error |-> "none",
          trace |-> <<"map_to_class_embedding", "decoder">>,
          lin_in |-> emb.lin_in, gen_in |-> x, reached |-> TRUE,
          out |-> GeneratorImage(dec.decoder, x)]

\* BigGANDecoderWrapper.forward
DecoderForward(dec, x) ==
    RunGenerator(dec, x, ClassUpForward(dec.map_to_class_embedding, x))

----------------------------------------------------------------------------
(* BigAE *)

\* DiagonalGaussianDistribution(parameters, deterministic): the parameters
\* split into two halves, mean and log-variance, along the channel axis.
DiagonalGaussianDistribution(parameters, deterministic) ==
    [mean |-> <<parameters[1], parameters[2] \div 2>>
              \o SubSeq(parameters, 3, Len(parameters)),
     logvar |-> <<parameters[1], parameters[2] \div 2>>
                \o SubSeq(parameters, 3, Len(parameters)),
     deterministic |-> deterministic]

\* The rest of BigAE.__init__ on the outcome e of ResnetEncoder(config):
\* cudnn.benchmark was set before anything could raise, so the result
\* carries cudnn = TRUE on every path.
WithDecoder(config, e) ==
    IF e.error # "none"
    THEN [error |-> e.error, trace |-> <<"cudnn_benchmark", "encoder">>,
          cudnn |-> TRUE, returned |-> NoObject]
    ELSE [error |-> "none",
          trace |-> <<"cudnn_benchmark", "encoder", "decoder">>,
          cudnn |-> TRUE,
          returned |->
              [kind |-> "BigAE", training |-> TRUE, weights |-> "init",
               be_deterministic |-> retrieve(config, "deterministic", FALSE),
               encoder |-> e.returned,
               decoder |-> BigGANDecoderWrapperInit(config)]]

\* BigAE.__init__: sets cudnn.benchmark, reads the determinism flag, builds
\* the encoder and then the decoder.
BigAEInit(config, fetch_ok) ==
    WithDecoder(config, ResnetEncoderInit(config, fetch_ok))

\* nn.Module.eval(): evaluation mode for the module and its submodules
ModuleEval(m) ==
    [m EXCEPT !.training = FALSE, !.encoder.training = FALSE,
              !.decoder.training = FALSE]

\* nn.Module.load_state_dict(torch.load(ckpt)): parameters and buffers
\* take the checkpoint's values
LoadStateDict(m) ==
    [m EXCEPT !.weights = "ckpt", !.encoder.updates = 0,
              !.decoder.updates = 0]

\* config_dict of from_pretrained
config_dict ==
    ("animals" :>
        [deterministic |-> FALSE, in_size |-> <<PresetSize>>, norm |-> "an",
         pretrained |-> FALSE, type |-> "resnet101",
         use_actnorm_in_dec |-> TRUE, z_dim |-> PresetSize])
    @@ ("animalfaces" :>
        [deterministic |-> FALSE, in_size |-> <<PresetSize>>, norm |-> "bn",
         pretrained |-> FALSE, type |-> "resnet101",
         use_actnorm_in_dec |-> FALSE, z_dim |-> PresetSize])

\* ckpt_dict of from_pretrained
ckpt_dict ==
    ("animals" :> "bigae_animals") @@ ("animalfaces" :> "bigae_animalfaces")

\* the steps of from_pretrained after the name check, in program order
FullTrace ==
    <<"construct", "get_ckpt_path", "torch.load", "load_state_dict", "eval">>

\* Variant: the model is returned with its weights loaded but without the
\* switch to evaluation mode.
LoadCheckpointNoEval(c, resolve_ok, read_ok, load_ok) ==
    IF c.error # "none" THEN [c EXCEPT !.trace = <<"construct">>]
    ELSE IF ~(resolve_ok /\ read_ok /\ load_ok)
    THEN [c EXCEPT !.error = "IOError", !.returned = NoObject,
                   !.trace = <<"construct", "get_ckpt_path">>]
    ELSE [c EXCEPT !.trace = SubSeq(FullTrace, 1, 4),
                   !.returned = LoadStateDict(@)]

\* Variant: a failed checkpoint step is tried a second time and then
\* swallowed, and the freshly constructed model is returned.
LoadCheckpointRetry(c, resolve_ok, read_ok, load_ok) ==
    IF c.error # "none" THEN [c EXCEPT !.trace = <<"construct">>]
    ELSE IF ~(resolve_ok /\ read_ok /\ load_ok)
    THEN [c EXCEPT !.trace = <<"construct", "get_ckpt_path",
                               "get_ckpt_path", "eval">>,
                   !.returned = ModuleEval(@)]
    ELSE [c EXCEPT !.trace = FullTrace,
                   !.returned = ModuleEval(LoadStateDict(@))]

\* The rest of from_pretrained on the outcome c of cls(config_dict[name]):
\* get_ckpt_path, torch.load, load_state_dict, eval, return, each run once
\* and in this order; the first that raises ends the call.
LoadCheckpoint(c, resolve_ok, read_ok, load_ok) ==
    IF c.error # "none" THEN [c EXCEPT !.trace = <<"construct">>]
    ELSE IF ~resolve_ok
    THEN [c EXCEPT !.error = "IOError", !.returned = NoObject,
                   !.trace = SubSeq(FullTrace, 1, 2)]
    ELSE IF ~read_ok
    THEN [c EXCEPT !.error = "IOError", !.returned = NoObject,
                   !.trace = SubSeq(FullTrace, 1, 3)]
    ELSE IF ~load_ok
    THEN [c EXCEPT !.error = "RuntimeError", !.returned = NoObject,
                   !.trace = SubSeq(FullTrace, 1, 4)]
    ELSE [c EXCEPT !.trace = FullTrace,
                   !.returned = ModuleEval(LoadStateDict(@))]

\* Variant: the name is checked only after a model has been constructed.
from_pretrained_construct_first(name, resolve_ok, read_ok, load_ok, flag) ==
    IF name \notin DOMAIN config_dict
    THEN [BigAEInit(config_dict["animals"], TRUE)
             EXCEPT !.error = "NotImplementedError", !.trace = <<"construct">>,
                    !.returned = NoObject]
    ELSE LoadCheckpoint(BigAEInit(config_dict[name], TRUE),
                        resolve_ok, read_ok, load_ok)

\* BigAE.from_pretrained(name).  resolve_ok, read_ok and load_ok are the
\* outcomes of get_ckpt_path, torch.load and load_state_dict; flag is the
\* value of cudnn.benchmark before the call.
from_pretrained(name, resolve_ok, read_ok, load_ok, flag) ==
    IF name \notin DOMAIN config_dict
    THEN [error |-> "NotImplementedError", trace |-> <<>>,
          cudnn |-> flag, returned |-> NoObject]
    ELSE LoadCheckpoint(BigAEInit(config_dict[name], TRUE),
                        resolve_ok, read_ok, load_ok)

\* The distribution encode returns on the outcome h of self.encoder(input)
Distribution(m, h) ==
    [error |-> h.error, trace |-> h.trace,
     out |-> IF h.error = "none"
             THEN DiagonalGaussianDistribution(h.shape, m.be_deterministic)
             ELSE NoObject,
     model |-> [m EXCEPT !.encoder = FeaturesEffect(@)]]

\* Variant: the distribution ignores the model's determinism flag.
encode_stochastic(m, input) ==
    [Distribution(m, Forward(m.encoder, input))
        EXCEPT !.out = IF @ = NoObject THEN @
                       ELSE [@ EXCEPT !.deterministic = FALSE]]

\* BigAE.encode
encode(m, input) == Distribution(m, Forward(m.encoder, input))

\* The image decode returns on the outcome h of self.decoder(...)
Image(m, h) ==
    [error |-> h.error, trace |-> <<"squeeze", "squeeze">> \o h.trace,
     lin_in |-> h.lin_in, gen_in |-> h.gen_in, reached |-> h.reached,
     out |-> h.out,
     model |-> IF h.error = "none"
               THEN [m EXCEPT !.decoder = GeneratorEffect(@)] ELSE m]

\* BigAE.decode
decode(m, input) ==
    Image(m, DecoderForward(m.decoder, Squeeze(Squeeze(input))))

\* BigAE.get_last_layer: a read of decoder.decoder.colorize.module.weight_bar
get_last_layer(m) ==
    [error |-> "none", trace |-> <<"getattr">>, out |-> "weight_bar",
     model |-> m]

----------------------------------------------------------------------------
(* The inputs the caller draws from. *)

Types == DOMAIN possible_resnets
Norms == DOMAIN norm_options
Dims == 1..MaxDim
Batches == 1..MaxBatch
SquareSizes == {<<s>> : s \in (MinInSize..MaxInSize) \cup {PresetSize}}
NonSquareSizes == {<<PresetSize, MaxInSize>>, <<MaxInSize, PresetSize>>}
Names == DOMAIN config_dict \cup {"unknown", "imagenet"}

\* configurations with the mandatory keys, with and without Model/type
BaseConfigs(sizes, norms) ==
    {[z_dim |-> z, in_size |-> s, pretrained |-> p, norm |-> n] :
        z \in Dims, s \in sizes, p \in BOOLEAN, n \in norms}

EncoderConfigs ==
    LET base == BaseConfigs(SquareSizes \cup NonSquareSizes,
                            Norms \cup {"gn"})
    IN base \cup {c @@ ("type" :> t) :
                    c \in base, t \in Types \cup {"resnet152"}}

BigAEConfigs ==
    LET base == BaseConfigs(SquareSizes, Norms)
        typed == {c @@ ("type" :> t) : c \in base, t \in Types}
    IN typed \cup {c @@ ("deterministic" :> d) : c \in typed, d \in BOOLEAN}
       \cup {c @@ ("deterministic" :> TRUE) : c \in BaseConfigs({<<PresetSize>>}, {"gn"})}

\* latents handed to decode and to ClassUp.forward: (B, z), (B, z, 1) and
\* (B, z, 1, 1)
Latents(z) ==
    UNION {{<<b, z>>, <<b, z, 1>>, <<b, z, 1, 1>>} : b \in Batches}

----------------------------------------------------------------------------
(* The caller's operations on a BigAE.  The caller builds one model, by the *)
(* factory or by the constructor, and then uses it; a call that raises      *)
(* leaves the caller without a model.                                       *)

Init ==
    /\ cudnn_benchmark = FALSE
    /\ model = NoObject
    /\ encoder = NoObject
    /\ classup = NoObject
    /\ last = NoCall

\* m = BigAE.from_pretrained(name)
FromPretrained ==
    /\ model = NoObject
    /\ \E name \in Names, resolve_ok \in BOOLEAN, read_ok \in BOOLEAN,
          load_ok \in BOOLEAN :
         \E r \in {from_pretrained(name, resolve_ok, read_ok, load_ok,
                                   cudnn_benchmark)} :
             /\ cudnn_benchmark' = r.cudnn
             /\ model' = r.returned
             /\ last' = [op |-> "from_pretrained", name |-> name,
                         resolve_ok |-> resolve_ok, read_ok |-> read_ok,
                         load_ok |-> load_ok,
                         error |-> r.error, trace |-> r.trace]
    /\ UNCHANGED <<encoder, classup>>

\* m = BigAE(config)
NewBigAE ==
    /\ model = NoObject
    /\ last.op # "BigAE"
    /\ \E config \in BigAEConfigs, fetch_ok \in BOOLEAN :
         /\ config["pretrained"] \/ fetch_ok
         /\ \E r \in {BigAEInit(config, fetch_ok)} :
             /\ cudnn_benchmark' = r.cudnn
             /\ model' = r.returned
             /\ last' = [op |-> "BigAE", config |-> config,
                         error |-> r.error, trace |-> r.trace]
    /\ UNCHANGED <<encoder, classup>>

\* m.eval()
Eval ==
    /\ model.kind = "BigAE"
    /\ model' = ModuleEval(model)
    /\ last' = [op |-> "eval", error |-> "none", trace |-> <<>>]
    /\ UNCHANGED <<cudnn_benchmark, encoder, classup>>

\* m.encode(x) on a batch of images of the configured size
Encode ==
    /\ model.kind = "BigAE"
    /\ \E b \in Batches :
         \E x \in {<<b, 3, model.encoder.config["in_size"][1],
                     model.encoder.config["in_size"][1]>>} :
           \E r \in {encode(model, x)} :
             /\ r.model.encoder.updates <= MaxUpdates
             /\ model' = r.model
             /\ last' = [op |-> "encode", arg |-> x, error |-> r.error,
                         trace |-> r.trace, out |-> r.out]
    /\ UNCHANGED <<cudnn_benchmark, encoder, classup>>

\* m.decode(z)
Decode ==
    /\ model.kind = "BigAE"
    /\ \E x \in Latents(model.encoder.z_dim) :
         \E r \in {decode(model, x)} :
             /\ r.model.decoder.updates <= MaxUpdates
             /\ model' = r.model
             /\ last' = [op |-> "decode", arg |-> x, error |-> r.error,
                         trace |-> r.trace, lin_in |-> r.lin_in,
                         gen_in |-> r.gen_in, reached |-> r.reached,
                         out |-> r.out]
    /\ UNCHANGED <<cudnn_benchmark, encoder, classup>>

\* m.get_last_layer()
GetLastLayer ==
    /\ model.kind = "BigAE"
    /\ \E r \in {get_last_layer(model)} :
          /\ model' = r.model
          /\ last' = [op |-> "get_last_layer", error |-> r.error,
                      trace |-> r.trace, out |-> r.out]
    /\ UNCHANGED <<cudnn_benchmark, encoder, classup>>

Next ==
    \/ FromPretrained
    \/ NewBigAE
    \/ Eval
    \/ Encode
    \/ Decode
    \/ GetLastLayer

Spec == Init /\ [][Next]_vars

----------------------------------------------------------------------------
(* The caller's operations on a stand-alone ResnetEncoder. *)

\* e = ResnetEncoder(config)
NewResnetEncoder ==
    /\ encoder = NoObject
    /\ last.op = "none"
    /\ \E config \in EncoderConfigs, fetch_ok \in BOOLEAN :
         /\ config["pretrained"] \/ fetch_ok
         /\ \E r \in {ResnetEncoderInit(config, fetch_ok)} :
             /\ encoder' = r.returned
             /\ last' = [op |-> "ResnetEncoder", config |-> config,
                         error |-> r.error, trace |-> r.trace]
    /\ UNCHANGED <<cudnn_benchmark, model, classup>>

EncoderImages ==
    {<<b, 3, encoder.config["in_size"][1], encoder.config["in_size"][1]>> :
        b \in Batches}

\* e(x)
EncoderForward ==
    /\ encoder.kind = "ResnetEncoder"
    /\ FeaturesEffect(encoder).updates <= MaxUpdates
    /\ \E x \in EncoderImages :
         \E r \in {Forward(encoder, x)} :
             /\ encoder' = FeaturesEffect(encoder)
             /\ last' = [op |-> "forward", arg |-> x, error |-> r.error,
                         trace |-> r.trace, out |-> r.shape]
    /\ UNCHANGED <<cudnn_benchmark, model, classup>>

\* e.features(x)
EncoderFeatures ==
    /\ encoder.kind = "ResnetEncoder"
    /\ FeaturesEffect(encoder).updates <= MaxUpdates
    /\ \E x \in EncoderImages :
         \E r \in {Features(encoder, x)} :
             /\ encoder' = FeaturesEffect(encoder)
             /\ last' = [op |-> "features", arg |-> x, error |-> r.error,
                         trace |-> r.trace, out |-> r.shape]
    /\ UNCHANGED <<cudnn_benchmark, model, classup>>

\* e.post_features(f) on the feature map that features just returned
EncoderPostFeatures ==
    /\ encoder.kind = "ResnetEncoder"
    /\ last.op = "features" /\ last.error = "none"
    /\ \E r \in {PostFeatures(encoder, last.out)} :
          last' = [op |-> "post_features", arg |-> last.arg,
                   error |-> r.error, trace |-> last.trace \o r.trace,
                   out |-> r.shape]
    /\ UNCHANGED <<cudnn_benchmark, model, encoder, classup>>

NextEncoder ==
    \/ NewResnetEncoder
    \/ EncoderForward
    \/ EncoderFeatures
    \/ EncoderPostFeatures

SpecEncoder == Init /\ [][NextEncoder]_vars

----------------------------------------------------------------------------
(* The caller's operations on a stand-alone ClassUp. *)

\* c = ClassUp(dim, depth, hidden_dim, use_sigmoid, out_dim)
NewClassUp ==
    /\ classup = NoObject
    /\ \E dim \in Dims, depth \in 0..MaxDepth,
          hidden_dim \in Dims \cup {DefaultHiddenDim},
          use_sigmoid \in BOOLEAN, out_dim \in Dims \cup {NoneDim} :
          classup' = ClassUpInit(dim, depth, hidden_dim, use_sigmoid, out_dim)
    /\ last' = [op |-> "ClassUp", error |-> "none", trace |-> <<>>]
    /\ UNCHANGED <<cudnn_benchmark, model, encoder>>

\* c(x)
CallClassUp ==
    /\ classup.kind = "ClassUp"
    /\ \E x \in Latents(classup.dim) :
         \E r \in {ClassUpForward(classup, x)} :
             last' = [op |-> "ClassUp.forward", arg |-> x,
                      error |-> r.error, trace |-> r.trace,
                      lin_in |-> r.lin_in, out |-> r.out]
    /\ UNCHANGED <<cudnn_benchmark, model, encoder, classup>>

NextClassUp ==
    \/ NewClassUp
    \/ CallClassUp

SpecClassUp == Init /\ [][NextClassUp]_vars

----------------------------------------------------------------------------
(* Properties.  PresetNames, KnownNorms and KnownTypes are written out as   *)
(* the documentation states them, not read back from the dictionaries.      *)

PresetNames == {"animals", "animalfaces"}
KnownNorms == {"in", "bn", "an"}
KnownTypes == {"resnet18", "resnet34", "resnet50", "resnet101"}

\* the two lifecycle states of a model
Constructed(m) == m.kind = "BigAE" /\ m.training
EvaluationReady(m) == m.kind = "BigAE" /\ ~m.training

\* C1: from_pretrained with a name outside {"animals", "animalfaces"} raises
\* NotImplementedError having run no step at all: no constructor, no
\* checkpoint resolution or load, no model, and the process-wide
\* cudnn.benchmark flag keeps the value it had before the call.
C1_UnknownNameRejectedFirst ==
    [][(last'.op = "from_pretrained" /\ last'.name \notin PresetNames)
         => /\ last'.error = "NotImplementedError"
            /\ last'.trace = <<>>
            /\ model' = NoObject
            /\ cudnn_benchmark' = cudnn_benchmark]_vars

\* C1 happens: an unknown name was rejected while cudnn.benchmark was unset.
C1_Witness ==
    /\ last.op = "from_pretrained"
    /\ last.name = "unknown"
    /\ last.error = "NotImplementedError"
    /\ cudnn_benchmark = FALSE

\* The state part of C2.
C2_State ==
    /\ model.kind = "BigAE" =>
         /\ model.training \in BOOLEAN
         /\ model.encoder.training = model.training
         /\ model.decoder.training = model.training
    /\ (last.op = "from_pretrained" /\ last.error = "none") =>
         /\ EvaluationReady(model)
         /\ model.weights = "ckpt"
         /\ Before(last.trace, "load_state_dict", "eval")
         /\ Last(last.trace) = "eval"
    /\ (last.op = "BigAE" /\ last.error = "none") =>
         /\ Constructed(model)
         /\ model.weights = "init"

\* C2: a model is in one of two states, constructed (training mode) or
\* evaluation-ready.  A successful from_pretrained returns an
\* evaluation-ready model whose checkpoint was loaded before the switch to
\* evaluation mode, the switch being the last step; the constructor returns
\* a constructed model, and a model enters evaluation-ready only by
\* from_pretrained or by the caller's eval().
C2_Lifecycle ==
    /\ []C2_State
    /\ [][(EvaluationReady(model') /\ ~EvaluationReady(model))
            => last'.op \in {"from_pretrained", "eval"}]_vars

\* C2 happens: the factory returned a model.
C2_Witness ==
    /\ last.op = "from_pretrained"
    /\ last.error = "none"
    /\ EvaluationReady(model)

\* C3, what the code does: for each of the four backbone types, each of the
\* three normalization tokens, each z_dim >= 1 and each integer in_size,
\* without pretrained backbone weights, construction succeeds exactly when
\* in_size > 32 or the token is "an", and otherwise ends in the ValueError
\* of the probe; on a constructed model encode on a batch of B images
\* returns a mean and a log-variance of shape (B, z_dim, 1, 1) each, the
\* two halves of the 2 * z_dim channels of the head.
C3_CodeBehaviour ==
    /\ (/\ last.op = "BigAE"
        /\ last.config["norm"] \in KnownNorms
        /\ ~last.config["pretrained"]) =>
         /\ last.error \in {"none", "ValueError"}
         /\ last.error = "none" <=>
              \/ last.config["in_size"][1] > 32
              \/ last.config["norm"] = "an"
    /\ model.kind = "BigAE" =>
         /\ model.encoder.type \in KnownTypes
         /\ model.encoder.fc.out_channels = 2 * model.encoder.z_dim
    /\ last.op = "encode" =>
         /\ last.error = "none"
         /\ last.out.mean = <<last.arg[1], model.encoder.z_dim, 1, 1>>
         /\ last.out.logvar = last.out.mean

\* C3 as the documentation states it: construction succeeds for every
\* square input size, and mean and log-variance have shape (B, z_dim).
C3_AsStated ==
    /\ (/\ last.op = "BigAE"
        /\ last.config["norm"] \in KnownNorms
        /\ ~last.config["pretrained"]) => last.error = "none"
    /\ (last.op = "encode" /\ last.error = "none") =>
         /\ last.out.mean = <<last.arg[1], model.encoder.z_dim>>
         /\ last.out.logvar = <<last.arg[1], model.encoder.z_dim>>

\* C4 as the documentation states it: a ResnetEncoder configured with a
\* non-square input size ends construction in the AssertionError 'Output
\* spatial size is not quadratic', and no encoder is produced.
C4_NonSquareAsserts ==
    (/\ last.op = "ResnetEncoder"
     /\ Len(last.config["in_size"]) = 2
     /\ last.config["in_size"][1] # last.config["in_size"][2]
     /\ last.config["norm"] \in KnownNorms
     /\ retrieve(last.config, "type", "resnet50") \in KnownTypes
     /\ ~last.config["pretrained"])
    => /\ last.error = "AssertionError"
       /\ encoder = NoObject

\* C5: a Model/norm outside {in, bn, an} or a Model/type outside the four
\* backbones ends construction in a KeyError before the backbone is built
\* and before the dense head is installed, and leaves no encoder; an encoder
\* that exists carries the dense head; without Model/type the type is
\* resnet50.
C5_ClosedSets ==
    /\ (/\ last.op = "ResnetEncoder"
        /\ \/ last.config["norm"] \notin KnownNorms
           \/ /\ "type" \in DOMAIN last.config
              /\ last.config["type"] \notin KnownTypes) =>
         /\ last.error = "KeyError"
         /\ encoder = NoObject
         /\ Count(last.trace, "backbone") = 0
         /\ Count(last.trace, "fc") = 0
    /\ encoder.kind = "ResnetEncoder" =>
         /\ encoder.norm \in KnownNorms
         /\ encoder.type \in KnownTypes
         /\ encoder.fc.out_channels = 2 * encoder.z_dim
         /\ "type" \notin DOMAIN encoder.config =>
              /\ encoder.type = "resnet50"
              /\ encoder.channels = 2048

\* C5 happens: a construction with an unknown backbone type was rejected.
C5_Witness ==
    /\ last.op = "ResnetEncoder"
    /\ last.config["norm"] \in KnownNorms
    /\ "type" \in DOMAIN last.config
    /\ last.config["type"] = "resnet152"
    /\ last.error = "KeyError"

\* C6: in from_pretrained with a recognized name, a failure of
\* get_ckpt_path, torch.load or load_state_dict reaches the caller as an
\* exception; the failing step is the last one attempted, each step was
\* attempted once, eval was not reached and the caller holds no model.
C6_LoadFailurePropagates ==
    (/\ last.op = "from_pretrained"
     /\ last.name \in PresetNames
     /\ ~(last.resolve_ok /\ last.read_ok /\ last.load_ok))
    => /\ last.error # "none"
       /\ model = NoObject
       /\ Count(last.trace, "eval") = 0
       /\ Count(last.trace, "get_ckpt_path") <= 1
       /\ Count(last.trace, "torch.load") <= 1
       /\ Count(last.trace, "load_state_dict") <= 1
       /\ last.trace =
            SubSeq(<<"construct", "get_ckpt_path", "torch.load",
                     "load_state_dict">>,
                   1, IF ~last.resolve_ok THEN 2
                      ELSE IF ~last.read_ok THEN 3 ELSE 4)

\* C6 happens: the checkpoint was resolved and read, and load_state_dict
\* rejected it.
C6_Witness ==
    /\ last.op = "from_pretrained"
    /\ last.name = "animals"
    /\ last.resolve_ok /\ last.read_ok /\ ~last.load_ok
    /\ last.error = "RuntimeError"

\* The layers of a ClassUp: input projection, depth hidden blocks, output
\* projection of width out_dim (dim when not given), optional sigmoid.
C7_Stack(cu) ==
    /\ Len(cu.main) = 2 * cu.depth + 3 + (IF cu.use_sigmoid THEN 1 ELSE 0)
    /\ cu.main[1] = Linear(cu.dim, cu.hidden_dim)
    /\ cu.main[2] = Activation("LeakyReLU")
    /\ \A k \in 1..cu.depth :
         /\ cu.main[2 * k + 1] = Linear(cu.hidden_dim, cu.hidden_dim)
         /\ cu.main[2 * k + 2] = Activation("LeakyReLU")
    /\ cu.main[2 * cu.depth + 3] =
         Linear(cu.hidden_dim,
                IF cu.out_dim = NoneDim THEN cu.dim ELSE cu.out_dim)
    /\ cu.use_sigmoid =>
         cu.main[2 * cu.depth + 4] = Activation("Sigmoid")

\* C7: the stack of a ClassUp is one input projection, exactly depth hidden
\* Linear + LeakyReLU blocks and one output projection of width out_dim (or
\* dim); no call of forward applies softmax more than once, and a call that
\* returns has run the two squeezes, every layer of the stack in order and
\* then softmax as its last operation, the sigmoid (when enabled) directly
\* before it.
C7_SoftmaxLast ==
    /\ classup.kind = "ClassUp" => C7_Stack(classup)
    /\ last.op = "ClassUp.forward" =>
         /\ Count(last.trace, "softmax") <= 1
         /\ last.error = "none" =>
              /\ Count(last.trace, "softmax") = 1
              /\ Last(last.trace) = "softmax"
              /\ last.trace =
                   <<"squeeze", "squeeze">>
                   \o [i \in 1..Len(classup.main) |-> classup.main[i].kind]
                   \o <<"softmax">>
              /\ Count(last.trace, "Sigmoid") =
                   (IF classup.use_sigmoid THEN 1 ELSE 0)
              /\ classup.use_sigmoid =>
                   last.trace[Len(last.trace) - 1] = "Sigmoid"

\* C7 happens: a ClassUp of depth 2 with the sigmoid and without out_dim
\* returned from forward.
C7_Witness ==
    /\ last.op = "ClassUp.forward"
    /\ last.error = "none"
    /\ classup.depth = 2
    /\ classup.use_sigmoid
    /\ classup.out_dim = NoneDim

\* C8 as the documentation states it: forward preprocesses its input
\* exactly once and runs the operations of post_features(features(x)).
C8_PreprocessOnce ==
    last.op = "forward" =>
        /\ Count(last.trace, "pre_process") = 1
        /\ last.trace = ApplyHead(encoder.fc, Features(encoder, last.arg)).trace

\* C9 as the documentation states it: a latent of shape (B, z) or
\* (B, z, 1, 1) reaches the linear stack of the class-embedding mapper and
\* the generator as a tensor of shape (B, z).
C9_DecodeKeepsLatentAxis ==
    (last.op = "decode" /\ Len(last.arg) \in {2, 4}) =>
        /\ last.lin_in = SubSeq(last.arg, 1, 2)
        /\ last.reached
        /\ last.gen_in = SubSeq(last.arg, 1, 2)

\* C10: on an evaluation-ready model encode, decode and get_last_layer leave
\* the model (mode, parameters, buffers, determinism flag) and the
\* cudnn.benchmark flag as they were; the determinism flag is the value of
\* Model/deterministic at construction, False when absent, and every
\* distribution encode returns carries it.
C10_EvalModeFrame ==
    [][(/\ EvaluationReady(model)
        /\ last'.op \in {"encode", "decode", "get_last_layer"})
         => /\ model' = model
            /\ cudnn_benchmark' = cudnn_benchmark
            /\ model'.be_deterministic =
                 retrieve(model.encoder.config, "deterministic", FALSE)
            /\ (last'.op = "encode" /\ last'.error = "none") =>
                 last'.out.deterministic =
                   retrieve(model.encoder.config, "deterministic", FALSE)]_vars

\* C10 happens: an evaluation-ready model configured as deterministic
\* returned a distribution from encode.
C10_Witness ==
    /\ EvaluationReady(model)
    /\ last.op = "encode"
    /\ last.error = "none"
    /\ model.be_deterministic
    /\ last.out.deterministic

====
